---- MODULE Spec2Model ----
(***************************************************************************)
(* Model of the PMW3360 optical motion sensor driver (src/pmw3360.py) and  *)
(* of the displacement sign conversion of its examples.                    *)
(*                                                                         *)
(* The driver is single threaded.  Every public method is one action,      *)
(* except set_CPI, whose retry loop has no bound in the code: one          *)
(* iteration of the loop is one action.  The SPI bus is observed through   *)
(* `bus`, the log of the primitive bus events (chip-select edges, spi.write*)
(* and spi.readinto calls, delays) of the current or most recent call.     *)
(***************************************************************************)
EXTENDS Integers, Sequences, FiniteSets, TLC

(* ------------------------------------------------------------------ *)
(* Register addresses                                                  *)
(* ------------------------------------------------------------------ *)
REG_Product_ID == 0
REG_Motion == 2
REG_Delta_X_L == 3
REG_Delta_X_H == 4
REG_Delta_Y_L == 5
REG_Delta_Y_H == 6
REG_Config1 == 15
REG_Config2 == 16
REG_Frame_Capture == 18
REG_SROM_Enable == 19
REG_SROM_ID == 42
REG_Power_Up_Reset == 58
REG_Shutdown == 59
REG_Inverse_Product_ID == 63
REG_Motion_Burst == 80
REG_SROM_Load_Burst == 98
REG_Raw_Data_Burst == 100

(* ------------------------------------------------------------------ *)
(* Bounds of the model                                                 *)
(* ------------------------------------------------------------------ *)
\* the monotonic clock stops advancing at MaxTime
MaxTime == 502
\* the retry counter of set_CPI saturates at MaxAttempts (the loop goes on)
MaxAttempts == 3
\* bytes of each firmware block that the model keeps
FwBlockLen == 2

(* ------------------------------------------------------------------ *)
(* Python integer operators                                            *)
(* ------------------------------------------------------------------ *)
RECURSIVE BitAndNat(_, _)
BitAndNat(a, b) ==
    IF a = 0 \/ b = 0 THEN 0
    ELSE (a % 2) * (b % 2) + 2 * BitAndNat(a \div 2, b \div 2)

RECURSIVE BitOr(_, _)
BitOr(a, b) ==
    IF a = 0 THEN b
    ELSE IF b = 0 THEN a
    ELSE (IF a % 2 = 1 \/ b % 2 = 1 THEN 1 ELSE 0) + 2 * BitOr(a \div 2, b \div 2)

\* x & mask for a mask in 0..65535: Python integers are two's complement of
\* unbounded width, so the low 16 bits of a negative x are x modulo 65536
BitAnd(x, mask) == BitAndNat(x % 65536, mask)

\* ~x
BitNot(x) == -x - 1

\* x << n
Shl(x, n) == x * (2 ^ n)

\* `a and b` of Python: a when a is falsy, b otherwise
PyAnd(a, b) == IF a = 0 THEN a ELSE b

\* truth value of an integer
Truthy(x) == x # 0

Bytes == 0..255

(* ------------------------------------------------------------------ *)
(* Input sets                                                          *)
(* ------------------------------------------------------------------ *)
\* the staleness threshold of read_burst
STALE == 500

\* amounts by which the clock advances between two calls
TickSteps == {250, 251}

\* the same, in the runs that mix read_burst with the other calls
CallTicks == {STALE + 1}

\* status bytes (byte 0 of a burst frame)
StatusBytes == {0, 1, 4, 8, 128, 136}

\* (low, high) byte pairs of a 16-bit displacement
WordPairs == {<<2, 1>>, <<255, 127>>, <<0, 128>>, <<255, 255>>}

\* bytes 1 and 4..11 of a burst frame
FrameTails == {<<0, 0, 0, 16, 17, 18, 19, 52, 18>>,
               <<255, 1, 255, 128, 255, 127, 1, 0, 255>>}

\* the 12-byte burst buffers the chip answers with
Frames ==
    { <<st, t[1], x[1], x[2], t[2], t[3], t[4], t[5], t[6], t[7], t[8], t[9]>> :
        st \in StatusBytes, x \in WordPairs, t \in FrameTails }

\* the burst buffers of the runs that mix read_burst with the other calls
CallFrames ==
    { f \in Frames : f[1] \in {0, 4, 128} /\ f[3] = 2 /\ f[2] = 0 }

\* bytes the chip answers to the reads of the signature registers
SigBytes == {0, 4, 5, 66, 67, 188, 189, 255}

\* all the answers to the three reads of check_signature
SigTriples == SigBytes \X SigBytes \X SigBytes

\* the answers of the runs that mix check_signature with the other calls
CallTriples ==
    {<<66, 189, 4>>, <<67, 189, 4>>, <<66, 188, 4>>, <<66, 189, 5>>,
     <<0, 0, 0>>, <<255, 255, 255>>}

\* resolutions passed to set_CPI and begin
CpiArgs == {150, 800}

\* the resolutions 100, 200, .. 12000
ValidCpi == {100 * k : k \in 1..120}

\* resolutions of every kind: negative, below 100, not multiples of 100,
\* valid, above 12000
CodeCpis == {-100, 0, 50, 99, 100, 149, 150, 151, 199, 250, 260, 800,
             11999, 12000, 12050, 12100, 13000}

\* registers and values passed to direct write_reg and read_reg calls
RegArgs == {REG_Product_ID, REG_Config1, REG_Config2, REG_Motion_Burst}

DataArgs == {0, 7}

\* The runs of the resolution alone pair every value of Config1 with the
\* resolutions of CpiEnds, and every valid resolution with the values of
\* Config1Ends.
CpiEnds == {100, 800, 12000}

Config1Ends == {0, 49, 119, 255}

\* values the chip's Config1 register holds at power up
Config1Init == {49, 255}

\* a chip that stores what is written to Config1, and one that does not
ChipKinds == {"faithful", "unresponsive"}

(* ------------------------------------------------------------------ *)
(* State                                                               *)
(* ------------------------------------------------------------------ *)
VARIABLES
    in_burst,     \* self.in_burst
    last_burst,   \* self.last_burst
    now,          \* time.monotonic()
    config1,      \* the chip's Config1 register
    chip,         \* kind of chip on the bus
    pc,           \* "idle", or "set_cpi" inside the loop of set_CPI
    op,           \* the call in progress, or the last one
    cpi,          \* argument of the set_CPI in progress
    attempts,     \* Config1 writes made by the set_CPI in progress
    phase,        \* parity of the turns of the loop of set_CPI
    bus,          \* bus events of the call in progress, or of the last one
    cs,           \* chip select is asserted
    rx,           \* bytes the chip answered to the result-bearing reads
    err,          \* the last call raised a bus error
    ret,          \* value the last call returned
    moved,        \* (dx, dy) of the examples, after delta()
    reg_call      \* arguments of the last direct write_reg or read_reg call

vars == <<in_burst, last_burst, now, config1, chip, pc, op, cpi, attempts, phase,
          bus, cs, rx, err, ret, moved, reg_call>>

(* ------------------------------------------------------------------ *)
(* SPI device: scoped transactions and transfers                       *)
(* ------------------------------------------------------------------ *)
\* A method is the sequence of the primitive steps it executes: chip-select
\* edges, transfers, delays and assignments to self.in_burst ("flag").
Step(i, v) == [i |-> i, v |-> v]

\* self.in_burst = b
set_in_burst(b) == <<Step("flag", IF b THEN 1 ELSE 0)>>

\* `with self.device as spi:` asserts chip select
device_enter == <<Step("cs_low", 0)>>

\* the end of the with block releases chip select
device_exit == <<Step("cs_high", 0)>>

spi_write(byte) == <<Step("write", byte)>>

spi_readinto(n) == <<Step("readinto", n)>>

delay_ms(delaytime) == <<Step("delay", delaytime)>>

\* a faulty variant of write_reg: in_burst is cleared for every register
write_reg_clearing(reg_addr, data) ==
    set_in_burst(FALSE)
    \o device_enter
    \o spi_write(BitOr(reg_addr, 128))
    \o spi_write(data)
    \o device_exit

\* a faulty variant of write_reg: the address byte goes out without the
\* write marker
write_reg_unmarked(reg_addr, data) ==
    (IF reg_addr # REG_Motion_Burst THEN set_in_burst(FALSE) ELSE <<>>)
    \o device_enter
    \o spi_write(reg_addr)
    \o spi_write(data)
    \o device_exit

write_reg(reg_addr, data) ==
    (IF reg_addr # REG_Motion_Burst THEN set_in_burst(FALSE) ELSE <<>>)
    \o device_enter
    \o spi_write(BitOr(reg_addr, 128))
    \o spi_write(data)
    \o device_exit

\* a faulty variant of read_reg: in_burst is left as it is
read_reg_keeping(reg_addr) ==
    device_enter
    \o spi_write(BitAnd(reg_addr, 127))
    \o spi_readinto(1)
    \o device_exit

read_reg(reg_addr) ==
    (IF reg_addr # REG_Motion_Burst THEN set_in_burst(FALSE) ELSE <<>>)
    \o device_enter
    \o spi_write(BitAnd(reg_addr, 127))
    \o spi_readinto(1)
    \o device_exit

(* ------------------------------------------------------------------ *)
(* Execution of a method, with the bus error that may end it           *)
(* ------------------------------------------------------------------ *)
IsTransfer(e) == e.ev \in {"write", "readinto"}

IsBusEvent(e) == e.ev \notin {"flag", "end"}

IsSelect(e) == e.ev \in {"cs_low", "cs_high"}

\* self.in_burst before step j of a script started with in_burst = b0
FlagBefore(script, b0, j) ==
    LET F == {k \in 1..(j - 1) : script[k].i = "flag"}
    IN  IF F = {} THEN b0
        ELSE script[CHOOSE k \in F : \A m \in F : m <= k].v = 1

\* the steps of a script, each with its place and the value of in_burst it
\* is executed under, closed by the end of the method
Trace(script, b0) ==
    LET whole == script \o <<Step("end", 0)>>
    IN  [j \in 1..Len(whole) |->
            [ev |-> whole[j].i, v |-> whole[j].v,
             armed |-> FlagBefore(whole, b0, j), at |-> j]]

\* number of transfers of a trace
Transfers(trace) == Len(SelectSeq(trace, IsTransfer))

\* the events as the log keeps them
Events(trace) ==
    [k \in 1..Len(trace) |->
        [ev |-> trace[k].ev, v |-> trace[k].v, armed |-> trace[k].armed]]

\* chip select is asserted after the events of a log
Selected(log) ==
    LET edges == SelectSeq(log, IsSelect)
    IN  edges # <<>> /\ edges[Len(edges)].ev = "cs_low"

\* a faulty variant of the outcome: the exception leaves chip select asserted
Run_unscoped(trace, fail) ==
    LET xfers == SelectSeq(trace, IsTransfer)
        failed == fail > 0 /\ fail <= Len(xfers)
        stop == IF failed THEN xfers[fail].at ELSE Len(trace)
        flag == trace[stop].armed
        done == Events(SelectSeq(SubSeq(trace, 1, stop - 1), IsBusEvent))
        raised == IF failed THEN <<[ev |-> "raise", v |-> 0, armed |-> flag]>> ELSE <<>>
    IN  [in_burst |-> flag,
         bus |-> done \o raised,
         cs |-> Selected(done \o raised),
         err |-> failed]

\* The outcome of a method whose transfer number `fail` raises (0: none):
\* the steps before it have run, the exception leaves the with block it is
\* in, which releases chip select, and nothing after it runs.
Run(trace, fail) ==
    LET xfers == SelectSeq(trace, IsTransfer)
        failed == fail > 0 /\ fail <= Len(xfers)
        stop == IF failed THEN xfers[fail].at ELSE Len(trace)
        flag == trace[stop].armed
        done == Events(SelectSeq(SubSeq(trace, 1, stop - 1), IsBusEvent))
        raised == IF failed
                  THEN <<[ev |-> "raise", v |-> 0, armed |-> flag]>>
                       \o (IF Selected(done)
                           THEN <<[ev |-> "cs_high", v |-> 0, armed |-> flag]>>
                           ELSE <<>>)
                  ELSE <<>>
    IN  [in_burst |-> flag,
         bus |-> done \o raised,
         cs |-> Selected(done \o raised),
         err |-> failed]

\* every outcome of a method: for each value of self.in_burst it may be
\* called under, and each transfer that may fail (0: none)
Runs(script) ==
    [b0 \in BOOLEAN |->
        LET trace == Trace(script, b0)
        IN  [fail \in 0..Transfers(trace) |-> Run(trace, fail)]]

(* ------------------------------------------------------------------ *)
(* Burst read                                                          *)
(* ------------------------------------------------------------------ *)
\* burst_buffer[i], with Python's index
At(burst_buffer, i) == burst_buffer[i + 1]

\* a faulty variant of the test: a burst exactly 500 old counts as stale
rearm_inclusive(burst, from_last) == ~burst \/ from_last >= STALE

\* the condition under which read_burst re-arms burst mode
rearm(burst, from_last) == ~burst \/ from_last > STALE

\* a faulty variant of the test: no frame is taken for a desynchronized one
panic_never(burst_buffer) == FALSE

\* the "panic recovery" test on the status byte
panic(burst_buffer) == Truthy(PyAnd(At(burst_buffer, 0), 7))

\* a faulty variant of the decoding: the bytes of dx taken in the other order
decode_swapped(burst_buffer) ==
    [is_motion |-> BitAnd(At(burst_buffer, 0), 128) # 0,
     is_on_surface |-> BitAnd(At(burst_buffer, 0), 8) = 0,
     dx |-> BitOr(Shl(At(burst_buffer, 2), 8), At(burst_buffer, 3)),
     dy |-> BitOr(Shl(At(burst_buffer, 5), 8), At(burst_buffer, 4)),
     SQUAL |-> At(burst_buffer, 6),
     raw_data_sum |-> At(burst_buffer, 7),
     max_raw_data |-> At(burst_buffer, 8),
     min_raw_data |-> At(burst_buffer, 9),
     shutter |-> BitOr(Shl(At(burst_buffer, 11), 8), At(burst_buffer, 10))]

\* a variant of the decoding that sign-extends dx and dy
decode_signed(burst_buffer) ==
    LET x == BitOr(Shl(At(burst_buffer, 3), 8), At(burst_buffer, 2))
        y == BitOr(Shl(At(burst_buffer, 5), 8), At(burst_buffer, 4))
    IN  [is_motion |-> BitAnd(At(burst_buffer, 0), 128) # 0,
         is_on_surface |-> BitAnd(At(burst_buffer, 0), 8) = 0,
         dx |-> IF x >= 32768 THEN x - 65536 ELSE x,
         dy |-> IF y >= 32768 THEN y - 65536 ELSE y,
         SQUAL |-> At(burst_buffer, 6),
         raw_data_sum |-> At(burst_buffer, 7),
         max_raw_data |-> At(burst_buffer, 8),
         min_raw_data |-> At(burst_buffer, 9),
         shutter |-> BitOr(Shl(At(burst_buffer, 11), 8), At(burst_buffer, 10))]

\* the dictionary read_burst returns
decode(burst_buffer) ==
    LET motion == BitAnd(At(burst_buffer, 0), 128) # 0
        surface == BitAnd(At(burst_buffer, 0), 8) = 0
        xl == At(burst_buffer, 2)
        xh == At(burst_buffer, 3)
        yl == At(burst_buffer, 4)
        yh == At(burst_buffer, 5)
        sl == At(burst_buffer, 10)
        sh == At(burst_buffer, 11)
        x == BitOr(Shl(xh, 8), xl)
        y == BitOr(Shl(yh, 8), yl)
        shutter == BitOr(Shl(sh, 8), sl)
    IN  [is_motion |-> motion,
         is_on_surface |-> surface,
         dx |-> x,
         dy |-> y,
         SQUAL |-> At(burst_buffer, 6),
         raw_data_sum |-> At(burst_buffer, 7),
         max_raw_data |-> At(burst_buffer, 8),
         min_raw_data |-> At(burst_buffer, 9),
         shutter |-> shutter]

\* a faulty variant of read_burst: in_burst is set before the burst
\* trigger is written
read_burst_arming_first(rearming, panicking) ==
    (IF rearming
     THEN set_in_burst(TRUE) \o write_reg(REG_Motion_Burst, 0)
     ELSE <<>>)
    \o device_enter
    \o spi_write(REG_Motion_Burst)
    \o spi_readinto(12)
    \o device_exit
    \o (IF panicking THEN set_in_burst(FALSE) ELSE <<>>)

\* the steps of read_burst, given the outcome of its two tests
read_burst(rearming, panicking) ==
    (IF rearming
     THEN write_reg(REG_Motion_Burst, 0) \o set_in_burst(TRUE)
     ELSE <<>>)
    \o device_enter
    \o spi_write(REG_Motion_Burst)
    \o spi_readinto(12)
    \o device_exit
    \o (IF panicking THEN set_in_burst(FALSE) ELSE <<>>)

read_burst_runs ==
    [rearming \in BOOLEAN, panicking \in BOOLEAN |-> Runs(read_burst(rearming, panicking))]

(* ------------------------------------------------------------------ *)
(* The examples' conversion of a displacement                          *)
(* ------------------------------------------------------------------ *)
delta(value) ==
    IF BitAnd(value, 32768) # 0
    THEN -BitAnd(BitNot(value), 32767)
    ELSE BitAnd(value, 32767)

(* ------------------------------------------------------------------ *)
(* Firmware upload                                                     *)
(* ------------------------------------------------------------------ *)
\* the first bytes of _FIRMWARE_DATA_1 .. _FIRMWARE_DATA_12
FirmwareHeads ==
    << <<1, 4, 142>>, <<82, 159, 43>>, <<137, 70, 33>>, <<236, 234, 180>>,
       <<107, 26, 101>>, <<129, 21, 10>>, <<53, 129, 20>>, <<239, 65, 38>>,
       <<61, 179, 176>>, <<212, 229, 218>>, <<49, 193, 0>>, <<174, 222, 62>> >>

\* the tuple of the firmware blocks, each cut to FwBlockLen bytes; the
\* blocks are not all of one length (345 bytes but for the last three), and
\* block 10, the shortest, is cut one byte shorter
FIRMWARE_DATA ==
    [i \in 1..12 |->
        LET keep == IF i = 10 THEN FwBlockLen - 1 ELSE FwBlockLen
        IN  SubSeq(FirmwareHeads[i], 1,
                   IF keep < Len(FirmwareHeads[i]) THEN keep
                   ELSE Len(FirmwareHeads[i]))]

\* a faulty variant of the inner loop: the last byte of a block is not sent
send_block_short(i) ==
    [y \in 1..(Len(FIRMWARE_DATA[i + 1]) - 1) |-> Step("write", FIRMWARE_DATA[i + 1][y])]

\* for y in range(len(_FIRMWARE_DATA[i])): spi.write(bytes([_FIRMWARE_DATA[i][y]]))
send_block(i) ==
    [y \in 1..Len(FIRMWARE_DATA[i + 1]) |-> Step("write", FIRMWARE_DATA[i + 1][y])]

\* for i in range(12): ..., from index i on
RECURSIVE send_blocks(_)
send_blocks(i) == IF i >= 12 THEN <<>> ELSE send_block(i) \o send_blocks(i + 1)

\* a faulty variant of the upload: SROM_ID is not read after the burst
upload_firmware_unlatched ==
    write_reg(REG_Config2, 0)
    \o write_reg(REG_SROM_Enable, 29)
    \o delay_ms(10)
    \o write_reg(REG_SROM_Enable, 24)
    \o device_enter
    \o spi_write(BitOr(REG_SROM_Load_Burst, 128))
    \o send_blocks(0)
    \o device_exit
    \o write_reg(REG_Config2, 0)

upload_firmware ==
    write_reg(REG_Config2, 0)
    \o write_reg(REG_SROM_Enable, 29)
    \o delay_ms(10)
    \o write_reg(REG_SROM_Enable, 24)
    \o device_enter
    \o spi_write(BitOr(REG_SROM_Load_Burst, 128))
    \o send_blocks(0)
    \o device_exit
    \o read_reg(REG_SROM_ID)
    \o write_reg(REG_Config2, 0)

(* ------------------------------------------------------------------ *)
(* Resolution                                                          *)
(* ------------------------------------------------------------------ *)
Min(a, b) == IF a < b THEN a ELSE b

Max(a, b) == IF a > b THEN a ELSE b

constrain(val, min_val, max_val) == Min(max_val, Max(min_val, val))

\* a variant of the encoding that rounds cpi/100 to the nearest integer
cpival_rounded(c) == constrain(((c + 50) \div 100) * 100 - 100, 0, 119 * 100) \div 100

\* a faulty variant of the encoding: the 1 is not subtracted
cpival_no_offset(c) == constrain(c, 0, 119 * 100) \div 100

\* int(constrain((cpi/100)-1, 0, 119)): the quotient is kept in hundredths,
\* and int() truncates a value that the clamp has made non-negative
cpival_of(c) == constrain(c - 100, 0, 119 * 100) \div 100

\* a faulty variant of the decoding: the 1 is not added
cpi_of_no_offset(cpival) == cpival * 100

\* what get_CPI returns when Config1 holds cpival
cpi_of(cpival) == (cpival + 1) * 100

\* the steps of get_CPI
get_CPI == read_reg(REG_Config1)

get_CPI_runs == Runs(get_CPI)

\* a variant of the turn that writes Config1 before it reads it back
set_CPI_turn_writing_first(cpival) == write_reg(REG_Config1, cpival) \o get_CPI

\* one turn of the loop of set_CPI whose readback disagrees
set_CPI_turn(cpival) == get_CPI \o write_reg(REG_Config1, cpival)

set_CPI_runs == [cpival \in 0..119 |-> Runs(set_CPI_turn(cpival))]

\* the chip's Config1 after a write_reg(Config1, data) whose outcome is s
stored(s, data) == IF ~s.err /\ chip = "faithful" THEN data ELSE config1

(* ------------------------------------------------------------------ *)
(* Signature                                                           *)
(* ------------------------------------------------------------------ *)
\* a faulty variant of check_signature: the first two reads in the other
\* order
check_signature_reordered ==
    read_reg(REG_Inverse_Product_ID)
    \o read_reg(REG_Product_ID)
    \o read_reg(REG_SROM_ID)

\* the steps of check_signature
check_signature ==
    read_reg(REG_Product_ID)
    \o read_reg(REG_Inverse_Product_ID)
    \o read_reg(REG_SROM_ID)

check_signature_runs == Runs(check_signature)

\* a faulty variant of the end of begin: the signature is read before the
\* last readback of set_CPI
begin_return_early == Runs(check_signature \o get_CPI)

\* the last turn of the loop of set_CPI in begin, and the return statement
begin_return_runs == Runs(get_CPI \o check_signature)

\* a faulty variant of the comparison: the firmware version is not compared
signature_without_srom(pid, iv_pid, SROM_ver) == pid = 66 /\ iv_pid = 189

\* the value check_signature returns
signature(pid, iv_pid, SROM_ver) == pid = 66 /\ iv_pid = 189 /\ SROM_ver = 4

(* ------------------------------------------------------------------ *)
(* Initialization and image capture                                    *)
(* ------------------------------------------------------------------ *)
\* a faulty variant of begin: the firmware is not uploaded
begin_reset_without_firmware ==
    write_reg(REG_Shutdown, 182)
    \o delay_ms(300)
    \o write_reg(REG_Power_Up_Reset, 90)
    \o read_reg(REG_Motion)
    \o read_reg(REG_Delta_X_L)
    \o read_reg(REG_Delta_X_H)
    \o read_reg(REG_Delta_Y_L)
    \o read_reg(REG_Delta_Y_H)
    \o delay_ms(10)

\* begin, up to its call of set_CPI
begin_reset ==
    write_reg(REG_Shutdown, 182)
    \o delay_ms(300)
    \o write_reg(REG_Power_Up_Reset, 90)
    \o read_reg(REG_Motion)
    \o read_reg(REG_Delta_X_L)
    \o read_reg(REG_Delta_X_H)
    \o read_reg(REG_Delta_Y_L)
    \o read_reg(REG_Delta_Y_H)
    \o upload_firmware
    \o delay_ms(10)

begin_reset_runs == Runs(begin_reset)

upload_firmware_runs == Runs(upload_firmware)

\* a faulty variant of the parameter: another default
begin_cpi_other_default(args) == IF args = <<>> THEN 1600 ELSE args[1]

\* the cpi parameter of begin, whose default is 800
begin_cpi(args) == IF args = <<>> THEN 800 ELSE args[1]

prepare_image ==
    write_reg(REG_Config2, 0)
    \o write_reg(REG_Frame_Capture, 131)
    \o write_reg(REG_Frame_Capture, 197)
    \o delay_ms(20)
    \o device_enter
    \o spi_write(BitAnd(REG_Raw_Data_Burst, 127))
    \o device_exit

read_image_pixel ==
    device_enter
    \o spi_readinto(1)
    \o device_exit

prepare_image_runs == Runs(prepare_image)

read_image_pixel_runs == Runs(read_image_pixel)

(* ------------------------------------------------------------------ *)
(* Calls                                                               *)
(* ------------------------------------------------------------------ *)
\* The value a call returns: its Python type and, by type, the value.
NoDict ==
    [is_motion |-> FALSE, is_on_surface |-> FALSE, dx |-> 0, dy |-> 0, SQUAL |-> 0,
     raw_data_sum |-> 0, max_raw_data |-> 0, min_raw_data |-> 0, shutter |-> 0]

None == [type |-> "None", b |-> FALSE, n |-> 0, d |-> NoDict]

Boolean(x) == [type |-> "bool", b |-> x, n |-> 0, d |-> NoDict]

Integer(x) == [type |-> "int", b |-> FALSE, n |-> x, d |-> NoDict]

Dict(x) == [type |-> "dict", b |-> FALSE, n |-> 0, d |-> x]

\* a bytearray of one byte
ByteArray(x) == [type |-> "bytearray", b |-> FALSE, n |-> x, d |-> NoDict]

\* a faulty variant of the end of a call: a failure is turned into the
\* value a successful call returns
Finish_swallowing(s, name, value, bytes) ==
    /\ in_burst' = s.in_burst
    /\ bus' = s.bus
    /\ cs' = s.cs
    /\ err' = s.err
    /\ op' = name
    /\ ret' = value
    /\ rx' = bytes

\* a call that ran to its end, or raised
Finish(s, name, value, bytes) ==
    /\ in_burst' = s.in_burst
    /\ bus' = s.bus
    /\ cs' = s.cs
    /\ err' = s.err
    /\ op' = name
    /\ ret' = IF s.err THEN None ELSE value
    /\ rx' = IF s.err THEN <<>> ELSE bytes

\* the loop of set_CPI is left alone
Idle == UNCHANGED <<pc, cpi, attempts, phase, moved, reg_call>>

\* a method without a loop: its outcomes, its result, the bytes it read
Call(runs, name, value, bytes) ==
    /\ pc = "idle"
    /\ \E fail \in DOMAIN runs[in_burst] :
          Finish(runs[in_burst][fail], name, value, bytes)
    /\ Idle

Init ==
    /\ in_burst = FALSE
    /\ last_burst = 0
    /\ now = 0
    /\ config1 \in Config1Init
    /\ chip \in ChipKinds
    /\ pc = "idle"
    /\ op = "init"
    /\ cpi = 0
    /\ attempts = 0
    /\ phase = 0
    /\ bus = <<>>
    /\ cs = FALSE
    /\ rx = <<>>
    /\ err = FALSE
    /\ ret = None
    /\ moved = <<0, 0>>
    /\ reg_call = <<>>

\* time passes between two calls
Tick(steps) ==
    /\ pc = "idle"
    /\ \E d \in steps :
        /\ now + d <= MaxTime
        /\ now' = now + d
    /\ UNCHANGED <<in_burst, last_burst, config1, chip, pc, op, cpi, attempts, phase,
                   bus, cs, rx, err, ret, moved, reg_call>>

ReadBurst(frames) ==
    /\ \E burst_buffer \in frames :
        /\ Call(read_burst_runs[rearm(in_burst, now - last_burst), panic(burst_buffer)],
                "read_burst", Dict(decode(burst_buffer)), burst_buffer)
        /\ last_burst' = IF err' THEN last_burst ELSE now
    /\ UNCHANGED <<now, config1, chip>>

GetCPI ==
    /\ Call(get_CPI_runs, "get_CPI", Integer(cpi_of(config1)), <<config1>>)
    /\ UNCHANGED <<last_burst, now, config1, chip>>

CheckSignature(triples) ==
    /\ \E id \in triples :
        Call(check_signature_runs, "check_signature",
             Boolean(signature(id[1], id[2], id[3])), id)
    /\ UNCHANGED <<last_burst, now, config1, chip>>

UploadFirmware ==
    /\ Call(upload_firmware_runs, "upload_firmware", None, <<>>)
    /\ UNCHANGED <<last_burst, now, config1, chip>>

PrepareImage ==
    /\ Call(prepare_image_runs, "prepare_image", None, <<>>)
    /\ UNCHANGED <<last_burst, now, config1, chip>>

ReadImagePixel ==
    /\ \E pixel \in {0, 127} :
        Call(read_image_pixel_runs, "read_image_pixel", ByteArray(pixel), <<pixel>>)
    /\ UNCHANGED <<last_burst, now, config1, chip>>

\* write_reg(reg_addr, data) called by the user of the driver
WriteReg(regs, datas) ==
    /\ pc = "idle"
    /\ \E reg_addr \in regs, data \in datas :
        LET runs == Runs(write_reg(reg_addr, data))[in_burst]
        IN  \E fail \in DOMAIN runs :
              /\ Finish(runs[fail], "write_reg", None, <<>>)
              /\ reg_call' = <<reg_addr, data>>
              /\ config1' = IF reg_addr = REG_Config1 THEN stored(runs[fail], data)
                             ELSE config1
    /\ UNCHANGED <<pc, cpi, attempts, phase, moved, last_burst, now, chip>>

\* read_reg(reg_addr) called by the user of the driver
ReadReg(regs) ==
    /\ pc = "idle"
    /\ \E reg_addr \in regs, answer \in {0, 66} :
        LET runs == Runs(read_reg(reg_addr))[in_burst]
            byte == IF reg_addr = REG_Config1 THEN config1 ELSE answer
        IN  \E fail \in DOMAIN runs :
              /\ Finish(runs[fail], "read_reg", ByteArray(byte), <<byte>>)
              /\ reg_call' = <<reg_addr>>
    /\ UNCHANGED <<pc, cpi, attempts, phase, moved, last_burst, now, config1, chip>>

\* set_CPI(c) is called: the loop is entered
SetCPI(cpis) ==
    /\ pc = "idle"
    /\ \E c \in cpis :
        /\ cpi' = c
        /\ pc' = "set_cpi"
        /\ op' = "set_CPI"
        /\ attempts' = 0
        /\ bus' = <<>>
        /\ rx' = <<>>
        /\ err' = FALSE
        /\ ret' = None
    /\ UNCHANGED <<reg_call, moved, phase, in_burst, last_burst, now, config1, chip, cs>>

\* begin(*args) is called and runs up to the loop of set_CPI
Begin(cpis) ==
    /\ pc = "idle"
    /\ LET runs == begin_reset_runs[in_burst]
       IN  \E args \in {<<>>} \cup {<<c>> : c \in cpis}, fail \in DOMAIN runs :
             LET s == runs[fail]
             IN  /\ Finish(s, "begin", None, <<>>)
                 /\ cpi' = IF s.err THEN cpi ELSE begin_cpi(args)
                 /\ attempts' = IF s.err THEN attempts ELSE 0
                 /\ pc' = IF s.err THEN "idle" ELSE "set_cpi"
    /\ UNCHANGED <<reg_call, moved, phase, last_burst, now, config1, chip>>

\* one turn of `while self.get_CPI() != cpi: self.write_reg(_REG_Config1, cpival)`:
\* the readback disagrees, or the call ends on a bus error
SetCpiRetry ==
    /\ pc = "set_cpi"
    /\ LET differs == cpi_of(config1) # cpi
           runs == IF differs THEN set_CPI_runs[cpival_of(cpi)][in_burst]
                   ELSE get_CPI_runs[in_burst]
       IN  \E fail \in DOMAIN runs :
             LET s == runs[fail]
             IN  /\ differs \/ s.err
                 /\ in_burst' = s.in_burst
                 /\ cs' = s.cs
                 /\ err' = s.err
                 /\ bus' = IF attempts < MaxAttempts \/ s.err THEN bus \o s.bus ELSE bus
                 /\ attempts' = IF s.err THEN attempts ELSE Min(attempts + 1, MaxAttempts)
                 /\ phase' = 1 - phase
                 /\ config1' = IF differs THEN stored(s, cpival_of(cpi)) ELSE config1
                 /\ pc' = IF s.err THEN "idle" ELSE "set_cpi"
    /\ UNCHANGED <<reg_call, moved, last_burst, now, chip, op, cpi, rx, ret>>

\* the readback agrees: set_CPI returns
SetCpiReturn ==
    /\ pc = "set_cpi"
    /\ op = "set_CPI"
    /\ cpi_of(config1) = cpi
    /\ LET s == get_CPI_runs[in_burst][0]
       IN  /\ in_burst' = s.in_burst
           /\ bus' = bus \o s.bus
           /\ cs' = s.cs
    /\ pc' = "idle"
    /\ UNCHANGED <<reg_call, moved, phase, last_burst, now, config1, chip, op, cpi, attempts, rx, err, ret>>

\* the readback agrees inside begin: begin returns check_signature()
BeginReturn(triples) ==
    /\ pc = "set_cpi"
    /\ op = "begin"
    /\ cpi_of(config1) = cpi
    /\ LET runs == begin_return_runs[in_burst]
       IN  \E id \in triples, fail \in DOMAIN runs \ {1, 2} :
             LET s == runs[fail]
             IN  /\ in_burst' = s.in_burst
                 /\ bus' = bus \o s.bus
                 /\ cs' = s.cs
                 /\ err' = s.err
                 /\ ret' = IF s.err THEN None ELSE Boolean(signature(id[1], id[2], id[3]))
                 /\ rx' = IF s.err THEN <<>> ELSE id
    /\ pc' = "idle"
    /\ UNCHANGED <<reg_call, moved, phase, last_burst, now, config1, chip, op, cpi, attempts>>

Next ==
    \/ Tick(CallTicks)
    \/ ReadBurst(CallFrames)
    \/ GetCPI
    \/ CheckSignature(CallTriples)
    \/ UploadFirmware
    \/ PrepareImage
    \/ ReadImagePixel
    \/ SetCPI(CpiArgs)
    \/ Begin(CpiArgs)
    \/ SetCpiRetry
    \/ SetCpiReturn
    \/ BeginReturn(CallTriples)

Spec == Init /\ [][Next]_vars

\* the loop of set_CPI keeps running, and a method that can return does
Fairness ==
    /\ WF_vars(SetCpiRetry)
    /\ WF_vars(SetCpiReturn)
    /\ WF_vars(BeginReturn(CallTriples))

FairSpec == Spec /\ Fairness

(* ------------------------------------------------------------------ *)
(* The burst read alone, over the whole set of frames                  *)
(* ------------------------------------------------------------------ *)
InitBurst ==
    /\ Init
    /\ config1 = 49
    /\ chip = "faithful"

NextBurst ==
    \/ Tick(TickSteps)
    \/ ReadBurst(Frames)

SpecBurst == InitBurst /\ [][NextBurst]_vars

(* ------------------------------------------------------------------ *)
(* The signature check alone, over all the answers                     *)
(* ------------------------------------------------------------------ *)
NextSig ==
    \/ CheckSignature(SigTriples)
    \/ ReadBurst(CallFrames)

SpecSig == InitBurst /\ [][NextSig]_vars

(* ------------------------------------------------------------------ *)
(* The resolution alone, over every valid resolution and every value   *)
(* of Config1, on a chip that stores what is written                   *)
(* ------------------------------------------------------------------ *)
InitCPI ==
    /\ in_burst = FALSE
    /\ last_burst = 0
    /\ now = 0
    /\ config1 \in Bytes
    /\ chip = "faithful"
    /\ pc = "idle"
    /\ op = "init"
    /\ cpi = 0
    /\ attempts = 0
    /\ phase = 0
    /\ bus = <<>>
    /\ cs = FALSE
    /\ rx = <<>>
    /\ err = FALSE
    /\ ret = None
    /\ moved = <<0, 0>>
    /\ reg_call = <<>>

NextCPI ==
    \/ SetCPI(IF config1 \in Config1Ends THEN ValidCpi ELSE CpiEnds)
    \/ SetCpiRetry
    \/ SetCpiReturn
    \/ GetCPI

SpecCPI == InitCPI /\ [][NextCPI]_vars /\ WF_vars(SetCpiRetry) /\ WF_vars(SetCpiReturn)

(* ------------------------------------------------------------------ *)
(* The register code of a resolution: set_CPI and get_CPI over           *)
(* resolutions of every kind, every value of Config1, both chips        *)
(* ------------------------------------------------------------------ *)
InitCode ==
    /\ in_burst = FALSE
    /\ last_burst = 0
    /\ now = 0
    /\ config1 \in Bytes
    /\ chip \in ChipKinds
    /\ pc = "idle"
    /\ op = "init"
    /\ cpi = 0
    /\ attempts = 0
    /\ phase = 0
    /\ bus = <<>>
    /\ cs = FALSE
    /\ rx = <<>>
    /\ err = FALSE
    /\ ret = None
    /\ moved = <<0, 0>>
    /\ reg_call = <<>>

NextCode ==
    \/ SetCPI(CodeCpis)
    \/ SetCpiRetry
    \/ SetCpiReturn
    \/ GetCPI

SpecCode == InitCode /\ [][NextCode]_vars

\* the same, with a loop of set_CPI that keeps running
FairSpecCode == SpecCode /\ WF_vars(SetCpiRetry) /\ WF_vars(SetCpiReturn)

(* ------------------------------------------------------------------ *)
(* Direct register accesses, between burst reads                        *)
(* ------------------------------------------------------------------ *)
NextReg ==
    \/ WriteReg(RegArgs, DataArgs)
    \/ ReadReg(RegArgs)
    \/ ReadBurst(CallFrames)
    \/ Tick(CallTicks)

SpecReg == InitBurst /\ [][NextReg]_vars

(* ------------------------------------------------------------------ *)
(* begin() as the examples call it, without an argument                 *)
(* ------------------------------------------------------------------ *)
NextDefault ==
    \/ Begin({})
    \/ SetCpiRetry
    \/ BeginReturn(CallTriples)
    \/ ReadBurst(CallFrames)

SpecDefault == Init /\ [][NextDefault]_vars

(* ------------------------------------------------------------------ *)
(* The examples' loop body after a first read_burst, over every        *)
(* 16-bit displacement                                                 *)
(* ------------------------------------------------------------------ *)
\* a clean frame whose dx is `value` and whose dy is its complement
DeltaFrame(value) ==
    <<0, 0, value % 256, value \div 256,
      (65535 - value) % 256, (65535 - value) \div 256, 16, 17, 18, 19, 52, 18>>

\* data = sensor.read_burst() has returned
InitDelta ==
    /\ \E value \in 0..65535 :
        LET s == read_burst_runs[TRUE, FALSE][FALSE][0]
        IN  /\ rx = DeltaFrame(value)
            /\ ret = Dict(decode(DeltaFrame(value)))
            /\ in_burst = s.in_burst
            /\ bus = s.bus
            /\ cs = s.cs
    /\ last_burst = 0
    /\ now = 0
    /\ config1 = 49
    /\ chip = "faithful"
    /\ pc = "idle"
    /\ op = "read_burst"
    /\ cpi = 0
    /\ attempts = 0
    /\ phase = 0
    /\ err = FALSE
    /\ moved = <<0, 0>>
    /\ reg_call = <<>>

\* dx = delta(data["dx"]); dy = delta(data["dy"])
Convert ==
    /\ op = "read_burst"
    /\ ~err
    /\ moved' = <<delta(ret.d.dx), delta(ret.d.dy)>>
    /\ op' = "delta"
    /\ UNCHANGED <<in_burst, last_burst, now, config1, chip, pc, cpi, attempts, phase,
                   bus, cs, rx, err, ret, reg_call>>

NextDelta == Convert

SpecDelta == InitDelta /\ [][NextDelta]_vars

(* ------------------------------------------------------------------ *)
(* Properties                                                          *)
(* ------------------------------------------------------------------ *)
\* event e is of kind ev with value v
Is(e, ev, v) == e.ev = ev /\ e.v = v

\* the four events at log[i..i+3] are one write_reg(addr, data) transaction
WroteReg(log, i, addr, data) ==
    /\ i >= 1 /\ i + 3 <= Len(log)
    /\ Is(log[i], "cs_low", 0)
    /\ Is(log[i + 1], "write", addr + 128)
    /\ Is(log[i + 2], "write", data)
    /\ Is(log[i + 3], "cs_high", 0)

\* the four events at log[i..i+3] are one transaction that sends the
\* address byte and reads n bytes
ReadBytes(log, i, addr, n) ==
    /\ i >= 1 /\ i + 3 <= Len(log)
    /\ Is(log[i], "cs_low", 0)
    /\ Is(log[i + 1], "write", addr)
    /\ Is(log[i + 2], "readinto", n)
    /\ Is(log[i + 3], "cs_high", 0)

\* the step is a read_burst call of the runs of the burst read alone
BurstCall == op' = "read_burst" /\ now' = now

\* C1: a read_burst call writes 0x00 to Motion_Burst if and only if, when it
\* is called, in_burst is false or more than 500 time units have passed
\* since last_burst; the write is the first transaction of the call, it is
\* closed before the 12-byte burst read is opened, and the burst read runs
\* with in_burst true.
C1_TriggerIffIdleOrStale ==
    [][BurstCall =>
        LET needed == ~in_burst \/ now - last_burst > 500
            log == bus'
            first == Len(log) >= 2 /\ log[2].ev = "write"
        IN  /\ ~needed => \A i \in 1..Len(log) : ~Is(log[i], "write", 208)
            /\ (needed /\ first) => Is(log[2], "write", 208)
            /\ ~err' =>
                 IF needed
                 THEN /\ Len(log) = 8
                      /\ WroteReg(log, 1, 80, 0)
                      /\ ReadBytes(log, 5, 80, 12)
                      /\ log[7].armed
                 ELSE /\ Len(log) = 4
                      /\ ReadBytes(log, 1, 80, 12)
                      /\ log[3].armed
    ]_vars

\* C1 witness: a read_burst called with in_burst true re-armed burst mode,
\* because the last burst was stale, and went on to its burst read
C1_Witness ==
    /\ op = "read_burst" /\ ~err
    /\ Len(bus) = 8
    /\ bus[1].armed
    /\ WroteReg(bus, 1, 80, 0)

\* C2: after a read_burst that returned, in_burst is false if and only if
\* one of the three low bits of byte 0 of the frame is set.
C2_ClearedIffLowBits ==
    (op = "read_burst" /\ ~err) => (~in_burst <=> rx[1] % 8 # 0)

\* C3: delta maps a raw 16-bit value r to r when r < 0x8000 and to
\* r - 65536 otherwise.
C3_TwosComplement ==
    op = "delta" =>
        LET r == ret.d.dx
        IN  moved[1] = IF r < 32768 THEN r ELSE r - 65536

\* C4: the sample read_burst returns is decoded from the 12-byte buffer
\* alone: is_motion is bit 7 of byte 0, is_on_surface is bit 3 of byte 0
\* clear, dx = byte3 * 256 + byte2, dy = byte5 * 256 + byte4, bytes 6..9 are
\* SQUAL, raw_data_sum, max_raw_data, min_raw_data, and
\* shutter = byte11 * 256 + byte10.
C4_Decode ==
    (op = "read_burst" /\ ~err) =>
        /\ ret.type = "dict"
        /\ ret.d = [is_motion |-> rx[1] >= 128,
                 is_on_surface |-> (rx[1] \div 8) % 2 = 0,
                 dx |-> rx[4] * 256 + rx[3],
                 dy |-> rx[6] * 256 + rx[5],
                 SQUAL |-> rx[7],
                 raw_data_sum |-> rx[8],
                 max_raw_data |-> rx[9],
                 min_raw_data |-> rx[10],
                 shutter |-> rx[12] * 256 + rx[11]]

\* C4 witness: byte0 = 0x80, dx bytes (0x02, 0x01), dy bytes (0, 0) gave
\* is_motion, is_on_surface, dx = 258, dy = 0
C4_Witness ==
    /\ op = "read_burst" /\ ~err
    /\ rx[1] = 128 /\ rx[3] = 2 /\ rx[4] = 1 /\ rx[5] = 0 /\ rx[6] = 0
    /\ ret.d.is_motion /\ ret.d.is_on_surface /\ ret.d.dx = 258 /\ ret.d.dy = 0

\* C5 as claimed: dx and dy of a returned sample are in -32768..32767.
C5_SignedRange ==
    (op = "read_burst" /\ ~err) =>
        (ret.d.dx \in -32768..32767 /\ ret.d.dy \in -32768..32767)

\* C5: dx and dy of a returned sample are the raw unsigned 16-bit values, in
\* 0..65535; a frame whose displacement high byte has its top bit set
\* yields a value of 32768 or more.
C5_UnsignedRange ==
    (op = "read_burst" /\ ~err) =>
        /\ ret.type = "dict"
        /\ ret.d.dx \in 0..65535 /\ ret.d.dy \in 0..65535
        /\ rx[4] >= 128 <=> ret.d.dx >= 32768
        /\ rx[6] >= 128 <=> ret.d.dy >= 32768

\* C5 witness: a frame whose dx high byte has its top bit set
C5_Witness ==
    /\ op = "read_burst" /\ ~err
    /\ rx[4] >= 128
    /\ ret.d.dx > 32767

\* C6: a set_CPI that has written Config1 MaxAttempts times and still reads
\* back another resolution has stopped.
C6_RetryBounded ==
    (op \in {"set_CPI", "begin"} /\ attempts >= MaxAttempts /\ cpi_of(config1) # cpi)
        => pc = "idle"

\* C7: a begin(800) that has reached set_CPI on a chip whose Config1 never
\* changes, and never reads back 7, eventually returns or raises.
C7_BeginReturns ==
    (op = "begin" /\ pc = "set_cpi" /\ cpi = 800 /\ chip = "unresponsive")
        ~> (pc = "idle")

\* C8: when begin returns, its result is that of check_signature: true
\* exactly when the three bytes read are (0x42, 0xBD, 0x04); the reads of
\* Product_ID, Inverse_Product_ID and SROM_ID are the last transactions of
\* the call, after the firmware upload and the last readback of set_CPI.
C8_BeginResult ==
    (op = "begin" /\ pc = "idle" /\ ~err) =>
        LET n == Len(bus)
        IN  /\ ret = Boolean(rx = <<66, 189, 4>>)
            /\ n >= 16
            /\ ReadBytes(bus, n - 15, 15, 1)
            /\ ReadBytes(bus, n - 11, 0, 1)
            /\ ReadBytes(bus, n - 7, 63, 1)
            /\ ReadBytes(bus, n - 3, 42, 1)
            /\ \E i \in 1..(n - 16) : Is(bus[i], "write", 226)

\* C8 witness: begin returned false, without an error, on a mismatch
C8_Witness ==
    /\ op = "begin" /\ pc = "idle" /\ ~err
    /\ ret = Boolean(FALSE)
    /\ rx = <<66, 189, 5>>

\* C9: check_signature returns true if and only if the three bytes read
\* are (0x42, 0xBD, 0x04).
C9_Signature ==
    (op = "check_signature" /\ ~err) => (ret = Boolean(rx = <<66, 189, 4>>))

\* C9 witness: only the third byte differs, and the result is false
C9_Witness ==
    /\ op = "check_signature" /\ ~err
    /\ rx[1] = 66 /\ rx[2] = 189 /\ rx[3] = 5
    /\ ret = Boolean(FALSE)

\* C10: on a chip that stores Config1 writes, for every multiple of 100 in
\* 100..12000 and from every value of Config1, set_CPI ends, leaves Config1
\* encoding the resolution it was given, and a get_CPI that follows
\* returns that resolution.
C10_RoundTrip ==
    /\ [](op = "set_CPI" /\ pc = "idle" /\ ~err => cpi_of(config1) = cpi)
    /\ [][(op = "set_CPI" /\ pc = "idle" /\ ~err /\ op' = "get_CPI" /\ ~err')
            => ret' = Integer(cpi)]_vars
    /\ (op = "set_CPI" /\ pc = "set_cpi") ~> (pc = "idle")

\* C10 witness: set_CPI(12000) returned after one write of Config1
C10_Witness ==
    /\ op = "set_CPI" /\ pc = "idle" /\ ~err
    /\ cpi = 12000 /\ attempts = 1 /\ config1 = 119

\* the Config1 writes of a log: the data bytes that follow the address byte
\* 0x8F at the head of a transaction
Config1Writes(log) ==
    {log[i + 2].v : i \in {k \in 1..(Len(log) - 2) :
        /\ Is(log[k], "cs_low", 0)
        /\ Is(log[k + 1], "write", 143)
        /\ log[k + 2].ev = "write"}}

\* round(x / 100), a half rounded up, and a half rounded to the even integer
RoundHalfUp(x) == (x + 50) \div 100

RoundHalfEven(x) ==
    LET q == x \div 100
        r == x % 100
    IN  IF r > 50 \/ (r = 50 /\ q % 2 = 1) THEN q + 1 ELSE q

\* clamp(v, lo, hi)
Clamp(v, lo, hi) == IF v < lo THEN lo ELSE IF v > hi THEN hi ELSE v

\* C11 as claimed: every value set_CPI(cpi) writes to Config1 is
\* clamp(round(cpi/100) - 1, 0, 119), whichever way a half is rounded.
C11_RoundedCode ==
    op = "set_CPI" =>
        \A data \in Config1Writes(bus) :
            data \in {Clamp(RoundHalfUp(cpi) - 1, 0, 119),
                      Clamp(RoundHalfEven(cpi) - 1, 0, 119)}

\* C11: every value set_CPI(cpi) writes to Config1 is
\* clamp(floor(cpi/100) - 1, 0, 119), for every integer cpi.
C11_TruncatedCode ==
    op = "set_CPI" =>
        \A data \in Config1Writes(bus) : data = Clamp((cpi \div 100) - 1, 0, 119)

\* C11 witness: set_CPI(150) wrote 0 to Config1
C11_Witness ==
    /\ op = "set_CPI" /\ cpi = 150
    /\ Config1Writes(bus) = {0}

\* C12: a get_CPI that returns has made one transaction, the read of one
\* byte of Config1, wrote no register, and returns (value + 1) * 100 for
\* the byte value it read, whatever the byte.
C12_GetCpi ==
    (op = "get_CPI" /\ ~err) =>
        /\ Len(bus) = 4
        /\ ReadBytes(bus, 1, 15, 1)
        /\ rx = <<config1>>
        /\ ret = Integer(rx[1] * 100 + 100)

\* C12 witness: Config1 held 0xFF and get_CPI returned 25600
C12_Witness ==
    /\ op = "get_CPI" /\ ~err
    /\ rx = <<255>>
    /\ ret.n = 25600

\* the places of a log where a transaction opens
Opens(log) == {i \in 1..(Len(log) - 2) : Is(log[i], "cs_low", 0)}

\* registers the driver writes, and registers it reads
WrittenRegs == {15, 16, 18, 19, 58, 59, 80, 98}

ReadRegs == {0, 2, 3, 4, 5, 6, 15, 42, 63, 80}

\* C13 as claimed: every transaction opens with an address byte; a byte
\* with the top bit set is followed by a value byte, one with the top bit
\* clear by the inbound transfer (or the transfer fails).
C13_FramingEverywhere ==
    \A i \in Opens(bus) :
        LET a == bus[i + 1]
            b == bus[i + 2]
        IN  /\ a.ev \in {"write", "raise"}
            /\ (a.ev = "write" /\ a.v >= 128) => b.ev \in {"write", "raise"}
            /\ (a.ev = "write" /\ a.v < 128) => b.ev \in {"readinto", "raise"}

\* C13: a transaction that carries an address byte sends it first, with the
\* top bit set when value bytes follow it and with the top bit clear when
\* an inbound transfer follows it; the only transactions without the two
\* parts are the image-capture address write, which sends
\* Raw_Data_Burst & 0x7F alone, and the transaction of read_image_pixel,
\* which is an inbound transfer of one byte with no address byte.
C13_FramingWhereAddressed ==
    /\ \A i \in Opens(bus) :
        LET a == bus[i + 1]
            b == bus[i + 2]
        IN  /\ a.ev \in {"write", "readinto", "raise"}
            /\ a.ev = "readinto" => (op = "read_image_pixel" /\ a.v = 1)
            /\ (a.ev = "write" /\ b.ev = "write") =>
                    (a.v >= 128 /\ (a.v - 128) \in WrittenRegs)
            /\ (a.ev = "write" /\ b.ev = "readinto") =>
                    (a.v < 128 /\ a.v \in ReadRegs)
            /\ (a.ev = "write" /\ b.ev = "cs_high") =>
                    (a.v = 100 /\ op = "prepare_image")
            /\ (a.ev = "write" /\ a.v >= 128) => b.ev \in {"write", "raise"}
            /\ (a.ev = "write" /\ a.v < 128) => b.ev \in {"readinto", "raise", "cs_high"}
    /\ \A j \in 1..Len(bus) :
        bus[j].ev = "readinto" =>
            \/ j >= 2 /\ bus[j - 1].ev = "cs_low"
            \/ j >= 3 /\ bus[j - 1].ev = "write" /\ bus[j - 2].ev = "cs_low"

\* C13 witness: prepare_image returned; its last transaction is the address
\* byte 0x64 alone, and a write_reg transaction precedes it
C13_Witness ==
    /\ op = "prepare_image" /\ ~err
    /\ Len(bus) = 16
    /\ WroteReg(bus, 1, 16, 0)
    /\ Is(bus[14], "cs_low", 0) /\ Is(bus[15], "write", 100) /\ Is(bus[16], "cs_high", 0)

\* the chip-select edges of a log, in order
Edges(log) == SelectSeq(log, IsSelect)

\* C14: chip select is released whenever no transaction is running, after
\* a return and after a failure alike; in the log of a call the edges
\* alternate, asserted first and released last, so that transactions never
\* nest; every transfer lies inside a transaction, and a failure is
\* followed at once by the release of chip select.
C14_ChipSelectScoped ==
    /\ ~cs
    /\ LET edges == Edges(bus)
       IN  /\ Len(edges) % 2 = 0
           /\ \A k \in 1..Len(edges) :
                 edges[k].ev = IF k % 2 = 1 THEN "cs_low" ELSE "cs_high"
    /\ \A j \in 1..Len(bus) :
          /\ bus[j].ev \in {"write", "readinto", "raise"} => Selected(SubSeq(bus, 1, j - 1))
          /\ bus[j].ev = "delay" => ~Selected(SubSeq(bus, 1, j - 1))
          /\ bus[j].ev = "raise" => (j + 1 = Len(bus) /\ bus[j + 1].ev = "cs_high")

\* C14 witness: a transfer of the firmware burst failed after 20 events,
\* and chip select was released
C14_Witness ==
    /\ op = "upload_firmware" /\ err /\ ~cs
    /\ Len(bus) >= 20
    /\ bus[Len(bus) - 1].ev = "raise"
    /\ bus[Len(bus) - 2].ev = "write"
    /\ bus[Len(bus)].ev = "cs_high"

\* C15: a write_reg or read_reg call on a register other than Motion_Burst
\* ends with in_burst false, whether it returned or raised; a write_reg
\* call on Motion_Burst ends with in_burst as it was.
C15_RegAccessClearsBurst ==
    [][op' \in {"write_reg", "read_reg"} =>
        IF reg_call'[1] # 80
        THEN ~in_burst'
        ELSE (op' = "write_reg" => in_burst' = in_burst)
    ]_vars

\* C15 witness: write_reg(Motion_Burst, 0) returned and in_burst is true
C15_Witness ==
    /\ op = "write_reg" /\ ~err
    /\ reg_call = <<80, 0>>
    /\ in_burst

\* C16: in_burst is true only when the most recent call is a read_burst,
\* whose transactions are the burst trigger and the burst read.
C16_BurstOnlyAfterBurst == in_burst => op = "read_burst"

\* number of bytes of the firmware blocks before block b
RECURSIVE FwOffset(_)
FwOffset(b) == IF b = 1 THEN 0 ELSE FwOffset(b - 1) + Len(FIRMWARE_DATA[b - 1])

\* sum of the lengths of the twelve blocks
FwTotal == FwOffset(13)

\* the events at log[i .. i + FwTotal + 2] are one transaction that sends
\* 0xE2 and then the bytes of the blocks, block after block
FwBurstAt(log, i) ==
    /\ i >= 1 /\ i + FwTotal + 2 <= Len(log)
    /\ Is(log[i], "cs_low", 0)
    /\ Is(log[i + 1], "write", 98 + 128)
    /\ \A b \in 1..12 : \A y \in 1..Len(FIRMWARE_DATA[b]) :
          Is(log[i + 1 + FwOffset(b) + y], "write", FIRMWARE_DATA[b][y])
    /\ Is(log[i + FwTotal + 2], "cs_high", 0)

\* the events at log[i .. i + FwTotal + 23] are the steps of a firmware
\* load, with one transaction of FwTotal + 1 writes in the place of the burst
FwStepsAt(log, i) ==
    /\ i >= 1 /\ i + FwTotal + 23 <= Len(log)
    /\ WroteReg(log, i, 16, 0)
    /\ WroteReg(log, i + 4, 19, 29)
    /\ log[i + 8].ev = "delay" /\ log[i + 8].v >= 10
    /\ WroteReg(log, i + 9, 19, 24)
    /\ Is(log[i + 13], "cs_low", 0)
    /\ Is(log[i + 14], "write", 226)
    /\ \A k \in (i + 15)..(i + 14 + FwTotal) : log[k].ev = "write"
    /\ Is(log[i + 15 + FwTotal], "cs_high", 0)
    /\ ReadBytes(log, i + 16 + FwTotal, 42, 1)
    /\ WroteReg(log, i + 20 + FwTotal, 16, 0)

\* C17: an upload_firmware that returns has sent, in one transaction in
\* which chip select stays asserted, 0xE2 and then every byte of every
\* block in block order: as many data bytes as the blocks hold together,
\* and the byte 0xE2 opens no other transaction.
C17_FirmwareBurst ==
    (op = "upload_firmware" /\ ~err) =>
        /\ FwBurstAt(bus, 14)
        /\ \A i \in Opens(bus) : Is(bus[i + 1], "write", 226) => i = 14
        /\ Len(SelectSeq(SubSeq(bus, 14, 16 + FwTotal), IsTransfer)) = FwTotal + 1

\* C17 witness: the upload returned, and byte 0x01 of block 1 follows 0xE2
C17_Witness ==
    /\ op = "upload_firmware" /\ ~err
    /\ Is(bus[15], "write", 226)
    /\ Is(bus[16], "write", 1)
    /\ FwTotal > 12

\* C18: a firmware load, alone or inside begin, is: write Config2 = 0,
\* write SROM_Enable = 0x1D, a delay of 10 ms or more, write
\* SROM_Enable = 0x18, the burst transaction, a read of SROM_ID, write
\* Config2 = 0, one after the other with nothing in between.
C18_FirmwareSteps ==
    /\ (op = "upload_firmware" /\ ~err) =>
          (Len(bus) = FwTotal + 24 /\ FwStepsAt(bus, 1))
    /\ (op = "begin" /\ Len(bus) >= FwTotal + 54) => FwStepsAt(bus, 30)

\* C18 witness: the upload returned after its read of SROM_ID and its last
\* write of Config2
C18_Witness ==
    /\ op = "upload_firmware" /\ ~err
    /\ Len(bus) = FwTotal + 24
    /\ ReadBytes(bus, Len(bus) - 7, 42, 1)
    /\ WroteReg(bus, Len(bus) - 3, 16, 0)

\* the transaction at log[i ..] addresses Config1
TouchesConfig1(log, i) == Is(log[i + 1], "write", 15) \/ Is(log[i + 1], "write", 143)

\* C19: a begin that has come to set_CPI has, in this order: written
\* Shutdown = 0xB6, waited 300 ms or more, written Power_Up_Reset = 0x5A,
\* read Motion, Delta_X_L, Delta_X_H, Delta_Y_L and Delta_Y_H once each,
\* loaded the whole firmware, waited 10 ms or more; no access to Config1
\* comes before that, the first transaction after it is the readback of
\* set_CPI (or fails at once), and a begin that returns ends with the reads
\* of check_signature.
C19_BeginOrder ==
    (op = "begin" /\ (pc = "set_cpi" \/ ~err \/ Len(bus) >= FwTotal + 54)) =>
        LET n == FwTotal + 54
        IN  /\ Len(bus) >= n
            /\ WroteReg(bus, 1, 59, 182)
            /\ bus[5].ev = "delay" /\ bus[5].v >= 300
            /\ WroteReg(bus, 6, 58, 90)
            /\ \A k \in 0..4 : ReadBytes(bus, 10 + 4 * k, 2 + k, 1)
            /\ FwStepsAt(bus, 30)
            /\ FwBurstAt(bus, 43)
            /\ bus[n].ev = "delay" /\ bus[n].v >= 10
            /\ \A i \in Opens(bus) : i < n => ~TouchesConfig1(bus, i)
            /\ Len(bus) > n =>
                  /\ bus[n + 1].ev = "cs_low"
                  /\ Is(bus[n + 2], "write", 15) \/ bus[n + 2].ev = "raise"
            /\ (pc = "idle" /\ ~err) =>
                  /\ ReadBytes(bus, Len(bus) - 11, 0, 1)
                  /\ ReadBytes(bus, Len(bus) - 7, 63, 1)
                  /\ ReadBytes(bus, Len(bus) - 3, 42, 1)

\* C19 witness: begin returned true after set_CPI wrote Config1
C19_Witness ==
    /\ op = "begin" /\ pc = "idle" /\ ~err
    /\ attempts >= 1
    /\ ret = Boolean(TRUE)

\* the places of a log where a transfer failed
Raises(log) == {j \in 1..Len(log) : log[j].ev = "raise"}

\* C20: a call in which a transfer failed has stopped there: the failure
\* is the last thing on the bus but for the release of chip select, no
\* transfer follows it and it happened once; the call is over, the loop of
\* set_CPI included, and it gave no return value.  A call that did not
\* fail has no failed transfer in its log.
C20_FailurePropagates ==
    /\ err =>
          /\ pc = "idle"
          /\ ret = None
          /\ rx = <<>>
          /\ Raises(bus) = {Len(bus) - 1}
          /\ bus[Len(bus)].ev = "cs_high"
    /\ ~err => Raises(bus) = {}

\* C20 witness: a transfer failed in the loop of set_CPI, after a write of
\* Config1, and the loop is over
C20_Witness ==
    /\ op = "set_CPI" /\ err /\ pc = "idle"
    /\ attempts >= 1
    /\ bus[Len(bus) - 1].ev = "raise"

\* the last call is a read_burst that returned a frame which trips the
\* test on byte 0: every frame with one of the three low bits set does
Tripped == op = "read_burst" /\ ~err /\ rx[1] % 8 # 0

\* the log opens with the burst trigger, or with its failure
TriggerFirst(log) ==
    /\ Len(log) >= 3
    /\ Is(log[1], "cs_low", 0)
    /\ Is(log[2], "write", 208) \/ log[2].ev = "raise"

\* C21: a read_burst whose frame trips the test on byte 0 returns the
\* decoded sample as any other does, without an error, and leaves in_burst
\* false; the read_burst that follows writes the burst trigger first, and
\* when it returns its log is the trigger write and then the burst read.
C21_DesyncNotSurfaced ==
    /\ [](Tripped =>
            /\ ret.type = "dict"
            /\ ret.d.dx = rx[4] * 256 + rx[3]
            /\ ret.d.dy = rx[6] * 256 + rx[5]
            /\ ~in_burst)
    /\ [][(Tripped /\ BurstCall) =>
            /\ TriggerFirst(bus')
            /\ ~err' => (WroteReg(bus', 1, 80, 0) /\ ReadBytes(bus', 5, 80, 12))
       ]_vars

\* C21 witness: a read_burst that did not re-arm read a frame whose byte 0
\* is 0x04, and returned its sample
C21_Witness ==
    /\ Tripped
    /\ rx[1] = 4
    /\ Len(bus) = 4
    /\ ret.type = "dict"
    /\ ~in_burst

\* C22: a begin() called without an argument asks set_CPI for 800: every
\* value it writes to Config1 is 7, and when it returns on a chip that
\* stores what is written, Config1 holds 7.
C22_DefaultCpi ==
    (op = "begin" /\ (pc = "set_cpi" \/ ~err)) =>
        /\ cpi = 800
        /\ Config1Writes(bus) \subseteq {7}
        /\ (pc = "idle" /\ chip = "faithful") => config1 = 7

\* C22 witness: begin() returned after one write of 7 to Config1
C22_Witness ==
    /\ op = "begin" /\ pc = "idle" /\ ~err
    /\ cpi = 800
    /\ Config1Writes(bus) = {7}
    /\ config1 = 7

\* C23 as claimed: a set_CPI that returned has written Config1, and the
\* write is its first transaction.
C23_WritesFirst ==
    (op = "set_CPI" /\ pc = "idle" /\ ~err) =>
        \E data \in 0..119 : WroteReg(bus, 1, 15, data)

\* C23: set_CPI reads Config1 back before it writes anything: the first
\* transaction of a call is the readback, every write of Config1 comes
\* right after a readback, and a call made when Config1 already encodes the
\* resolution asked for returns after that one readback, without a write.
C23_ReadsFirst ==
    op = "set_CPI" =>
        /\ bus # <<>> => (Is(bus[1], "cs_low", 0)
                          /\ (Is(bus[2], "write", 15) \/ bus[2].ev = "raise"))
        /\ \A i \in Opens(bus) :
              Is(bus[i + 1], "write", 143) => (i >= 5 /\ ReadBytes(bus, i - 4, 15, 1))
        /\ (pc = "idle" /\ ~err /\ attempts = 0) =>
              (Len(bus) = 4 /\ ReadBytes(bus, 1, 15, 1) /\ Config1Writes(bus) = {})

\* C23 witness: set_CPI(800) returned from a chip whose Config1 held 7,
\* after one readback and no write
C23_Witness ==
    /\ op = "set_CPI" /\ pc = "idle" /\ ~err
    /\ cpi = 800 /\ config1 = 7
    /\ attempts = 0
    /\ Len(bus) = 4

\* the step is a check_signature call
SignatureCall == op' = "check_signature" /\ now' = now

\* C24: a check_signature call opens no transaction that writes a register
\* and, when it returns, has made three transactions: the reads of one byte
\* of Product_ID, of Inverse_Product_ID and of SROM_ID, in that order.  It
\* leaves in_burst false and changes nothing else: last_burst, the chip's
\* Config1 and the loop state of set_CPI are as they were.
C24_SignatureReadsOnly ==
    [][SignatureCall =>
        /\ \A i \in Opens(bus') : ~(bus'[i + 1].ev = "write" /\ bus'[i + 1].v >= 128)
        /\ ~err' =>
              /\ Len(bus') = 12
              /\ ReadBytes(bus', 1, 0, 1)
              /\ ReadBytes(bus', 5, 63, 1)
              /\ ReadBytes(bus', 9, 42, 1)
        /\ ~in_burst'
        /\ last_burst' = last_burst
        /\ config1' = config1
        /\ <<pc', cpi', attempts'>> = <<pc, cpi, attempts>>
    ]_vars

\* C24 witness: check_signature returned after a burst read made at a time
\* other than 0; last_burst still holds that time
C24_Witness ==
    /\ op = "check_signature" /\ ~err
    /\ Len(bus) = 12
    /\ last_burst > 0
    /\ ~in_burst

\* C25: on a chip that stores what is written to Config1, a set_CPI call
\* ends, whatever integer it is given.
C25_AnyCpiTerminates ==
    (op = "set_CPI" /\ pc = "set_cpi" /\ chip = "faithful") ~> (pc = "idle")

\* a read_burst called now writes the burst trigger
StaleOrIdle == ~in_burst \/ now - last_burst > 500

\* the log is that of a call that failed in its first transaction
FailedAtOnce(log) ==
    \/ Len(log) = 3 /\ log[2].ev = "raise"
    \/ Len(log) = 4 /\ log[3].ev = "raise"

\* C26: a read_burst that had to write the burst trigger, because in_burst
\* was false or because the last burst was stale, and whose trigger write
\* failed, leaves the driver in a state in which the trigger has to be
\* written again; the passing of time does not change that, and the
\* read_burst that follows writes the trigger first.
C26_FailedTriggerRetried ==
    /\ [][(BurstCall /\ StaleOrIdle /\ err' /\ FailedAtOnce(bus')) => StaleOrIdle']_vars
    /\ [][(StaleOrIdle /\ now' # now) => StaleOrIdle']_vars
    /\ [][(BurstCall /\ StaleOrIdle) => TriggerFirst(bus')]_vars

\* C26 witness: the last burst was stale, in_burst was true, the second
\* byte of the trigger write failed, and the trigger is still due
C26_Witness ==
    /\ op = "read_burst" /\ err
    /\ Len(bus) = 4
    /\ Is(bus[2], "write", 208) /\ bus[3].ev = "raise"
    /\ in_burst
    /\ now - last_burst > 500

\* the calls after which in_burst is false
ClearingCalls ==
    {"begin", "upload_firmware", "set_CPI", "get_CPI", "check_signature", "prepare_image"}

\* the last call is one of them, and it returned
Cleared == op \in ClearingCalls /\ pc = "idle" /\ ~err

\* C27: in_burst is false after construction and after a begin,
\* upload_firmware, set_CPI, get_CPI, check_signature or prepare_image that
\* returned; only a read_burst call makes it true; and the read_burst that
\* follows one of those calls writes the burst trigger first.
C27_OnlyReadBurstArms ==
    /\ [](op = "init" => ~in_burst)
    /\ [](Cleared => ~in_burst)
    /\ [][(~in_burst /\ in_burst') => op' = "read_burst"]_vars
    /\ [][(Cleared /\ op' = "read_burst") => TriggerFirst(bus')]_vars

\* C27 witness: set_CPI returned after a burst read made at a time other
\* than 0, and in_burst is false
C27_Witness ==
    /\ op = "set_CPI" /\ pc = "idle" /\ ~err
    /\ last_burst > 0
    /\ ~in_burst

====
